---- MODULE Spec2Model ----
(***************************************************************************)
(* A model of webcore-go/lib-pubsub (src/pubsub.go): the PubSub connector, *)
(* its receiver registry, the receive goroutines started by StartReceiving *)
(* with the per-message Receive callback, Disconnect, and PublishMessages. *)
(***************************************************************************)
EXTENDS Integers, Sequences, FiniteSets, TLC

\* ---------------------------------------------------------------- bounds
MaxMsgs == 2          \* messages the broker delivers
MaxReceivers == 2     \* RegisterReceiver calls
MaxStarts == 2        \* StartReceiving calls
MaxDisconnects == 2   \* Disconnect calls
MaxBatch == 3         \* payloads in one PublishMessages call
MaxListing == 3       \* entries in one broker listing

Msgs == 1..MaxMsgs
Consumers == {"A", "B", "C"}
Payloads == {"p1", "p2"}
AttrSets == {"attrs1", "attrs2"}

\* A consumer's verdict map, delivery ID -> bool, returned for message m: the
\* empty map (a nil map has length 0 too), m's ID alone as true or as false,
\* and another ID alone as true.
OtherID(m) == IF m = 1 THEN 2 ELSE 1
VerdictMaps(m) ==
    {[x \in {} |-> TRUE], [x \in {m} |-> TRUE], [x \in {m} |-> FALSE],
     [x \in {OtherID(m)} |-> TRUE]}

VARIABLES
    Client,        \* ps.Client: "nil" or "handle"
    Receivers,     \* ps.Receivers
    loops,         \* the goroutines StartReceiving has started, by position
    startCalls,    \* StartReceiving calls made
    emptyStarts,   \* StartReceiving calls made while the registry was empty
    panicked,      \* the process died of a runtime panic
    d,             \* per delivered message: the Receive callback's frame
    closeCalls,    \* calls of Client.Close()
    disconnects,   \* Disconnect calls made
    lastDisconnect,\* what the last Disconnect call did and returned
    pub,           \* the frame of PublishMessages
    files,         \* the credential files that exist on disk
    np,            \* the last NewPubSub call: its input and what it did
    ls,            \* the frame of GetTopicInfo / GetSubscriptionInfo and its iterator
    registered,    \* the consumers RegisterReceiver was called with, in call order
    appending      \* the consumer of a RegisterReceiver call writing ps.Receivers, or ""

vars == <<Client, Receivers, loops, startCalls, emptyStarts, panicked, d,
          closeCalls, disconnects, lastDisconnect, pub, files, np, ls,
          registered, appending>>

connVars == <<Client, closeCalls, disconnects, lastDisconnect>>
pubVars == <<pub>>
newVars == <<files, np>>
listVars == <<ls>>
regVars == <<registered, appending>>

\* ------------------------------------------------------------ helpers
Count(s, P(_)) == Cardinality({i \in 1..Len(s) : P(s[i])})

IsAck(e) == e[1] = "Ack"
IsNack(e) == e[1] = "Nack"
IsConsume(e) == e[1] = "Consume"
IsSignal(e) == IsAck(e) \/ IsNack(e)

\* The callback frame of a message not delivered yet.
NoFrame ==
    [pc |-> "undelivered", rcv |-> <<>>, idx |-> 0,
     ackDone |-> FALSE, calls |-> <<>>, okFirst |-> 0, okMore |-> FALSE, errTrue |-> FALSE]

\* The receive goroutines are interchangeable: how many are at each position.
NoLoops == [spawned |-> 0, running |-> 0, exited |-> 0]

Started == loops.spawned + loops.running + loops.exited

\* PublishMessages not called yet. k counts the payloads ranged over; sent and
\* got log each PublishMessage call and what it returned.
IdlePub ==
    [pc |-> "idle", messages |-> <<>>, attributes |-> "attrs1", k |-> 0,
     results |-> <<>>, i |-> 0, err |-> "nil", msgID |-> "",
     sent |-> <<>>, got |-> <<>>]

\* The configured credential file and the temporary one NewPubSub derives from
\* the project id.
CredPath == "creds.json"
TempCredPath == "pubsub-credentials-proj.json"

\* NewPubSub not called yet.
NoListing ==
    [pc |-> "idle", kind |-> "topic", listing |-> <<>>, sticky |-> FALSE,
     pos |-> 1, itErr |-> FALSE, item |-> "nil", err |-> "nil",
     subs |-> <<>>, result |-> "nil"]

NoNewPubSub ==
    [pc |-> "idle", config |-> [ProjectID |-> "", CredentialsPath |-> "", Credentials |-> "nil"],
     before |-> {}, fsOps |-> <<>>, credFile |-> "", client |-> FALSE, err |-> "nil"]

\* A connector as NewPubSub returns it (Client set, no receivers), or a PubSub
\* value whose connection was never opened (Client nil).
Init ==
    /\ Client \in {"nil", "handle"}
    /\ Receivers = <<>>
    /\ loops = NoLoops
    /\ startCalls = 0
    /\ emptyStarts = 0
    /\ panicked = FALSE
    /\ d = [m \in Msgs |-> NoFrame]
    /\ closeCalls = 0
    /\ disconnects = 0
    /\ lastDisconnect = [closed |-> FALSE, err |-> "nil"]
    /\ pub = IdlePub
    /\ files = {}
    /\ np = NoNewPubSub
    /\ ls = NoListing
    /\ registered = <<>>
    /\ appending = ""

\* ------------------------------------------------------- the registry
\* A registry that keeps one entry per consumer.
AppendIfNew(rs, c) ==
    IF \E i \in 1..Len(rs) : rs[i] = c THEN rs ELSE Append(rs, c)

\* ps.Receivers = append(ps.Receivers, receiver)
AppendReceiver(rs, c) == Append(rs, c)

\* func (ps *PubSub) RegisterReceiver(receiver), no dispatch reading
\* ps.Receivers while it runs.
RegisterReceiver(c) ==
    /\ ~panicked
    /\ appending = ""
    /\ Len(Receivers) < MaxReceivers
    /\ Receivers' = AppendReceiver(Receivers, c)
    /\ registered' = Append(registered, c)
    /\ UNCHANGED <<loops, startCalls, emptyStarts, d, panicked, appending>>
    /\ UNCHANGED connVars
    /\ UNCHANGED pubVars
    /\ UNCHANGED <<newVars, listVars>>

\* ------------------------------------------------- starting the loop
\* The empty-registry test left out.
NoReceiversNeverTrue(rs) == FALSE

\* StartReceiving's early return: if len(ps.Receivers) == 0 { ...; return }
NoReceivers(rs) == Len(rs) = 0

\* The function literal called in place: StartReceiving returns when
\* sub.Receive has returned.
CalledInline(l) == [l EXCEPT !.exited = @ + 1]

\* go func() { ... }(): a goroutine is started and the caller goes on.
Go(l) == [l EXCEPT !.spawned = @ + 1]

\* func (ps *PubSub) StartReceiving(ctx): the call itself. It logs and returns
\* on an empty registry and otherwise starts a goroutine; it never waits.
StartReceiving ==
    /\ ~panicked
    /\ startCalls < MaxStarts
    /\ startCalls' = startCalls + 1
    /\ emptyStarts' = IF Len(Receivers) = 0 THEN emptyStarts + 1 ELSE emptyStarts
    /\ loops' = IF NoReceivers(Receivers)
                   THEN loops
                   ELSE Go(loops)
    /\ UNCHANGED <<Receivers, d, panicked>>
    /\ UNCHANGED connVars
    /\ UNCHANGED pubVars
    /\ UNCHANGED <<newVars, listVars, regVars>>

\* A goroutine's first statements: ps.Client.Subscriber(...) and the call of
\* sub.Receive. A nil ps.Client is dereferenced here.
LoopBegin ==
    /\ ~panicked
    /\ loops.spawned > 0
    /\ IF Client = "nil"
          THEN /\ panicked' = TRUE
               /\ UNCHANGED loops
          ELSE /\ loops' = [loops EXCEPT !.spawned = @ - 1, !.running = @ + 1]
               /\ UNCHANGED panicked
    /\ UNCHANGED <<Receivers, startCalls, emptyStarts, d>>
    /\ UNCHANGED connVars
    /\ UNCHANGED pubVars
    /\ UNCHANGED <<newVars, listVars, regVars>>

\* A goroutine that starts its pull again when sub.Receive has returned.
PullRestarted(l) == [l EXCEPT !.running = @ - 1, !.spawned = @ + 1]

\* The goroutine's function returns after sub.Receive: the goroutine is over.
GoroutineEnds(l) == [l EXCEPT !.running = @ - 1, !.exited = @ + 1]

\* sub.Receive returns (the context is cancelled, or the transport fails); the
\* goroutine logs the error, if any, and ends either way. That Receive waits
\* for its outstanding callbacks is not modelled: a callback may still run.
ReceiveReturn(err) ==
    /\ ~panicked
    /\ loops.running > 0
    /\ loops' = GoroutineEnds(loops)
    /\ UNCHANGED <<Receivers, startCalls, emptyStarts, d, panicked>>
    /\ UNCHANGED connVars
    /\ UNCHANGED pubVars
    /\ UNCHANGED <<newVars, listVars, regVars>>

\* ------------------------------------------------ the Receive callback
\* The callback without its first statement.
PreAckLeftOut(calls) == calls

\* msg.Ack() as the callback's first statement.
PreAck(calls) == Append(calls, <<"Ack">>)

\* for _, c := range ps.Receivers: the slice is read once, when the loop starts.
RangeOver(rs) == rs

\* A loop that breaks once a consumer has won.
LoopBreaksAtWin(idx, rcv, ackDone) == idx < Len(rcv) /\ ~ackDone

\* The range loop goes on while consumers are left, whatever happened before.
LoopContinues(idx, rcv, ackDone) == idx < Len(rcv)

\* The test without !ackDone.
WinsAgain(ackDone, err, ack, id) ==
    /\ err = "nil"
    /\ Cardinality(DOMAIN ack) > 0
    /\ id \in DOMAIN ack
    /\ ack[id]

\* The test without err == nil.
WinsIgnoringErr(ackDone, err, ack, id) ==
    /\ ~ackDone
    /\ Cardinality(DOMAIN ack) > 0
    /\ id \in DOMAIN ack
    /\ ack[id]

\* The test taking any true entry of the map for this message's.
WinsOnAnyTrue(ackDone, err, ack, id) ==
    /\ ~ackDone
    /\ err = "nil"
    /\ \E k \in DOMAIN ack : ack[k]

\* The loop body's test:
\*   !ackDone && err == nil && len(ack) > 0, then val, ok := ack[m.ID]; ok && val
Wins(ackDone, err, ack, id) ==
    /\ ~ackDone
    /\ err = "nil"
    /\ Cardinality(DOMAIN ack) > 0
    /\ id \in DOMAIN ack
    /\ ack[id]

\* The Nack without its ackDone guard.
FinalSignalUnguarded(ackDone, calls) == Append(calls, <<"Nack">>)

\* if !ackDone { msg.Nack() }
FinalSignal(ackDone, calls) ==
    IF ~ackDone THEN Append(calls, <<"Nack">>) ELSE calls

\* The broker delivers the next message to a running receive loop, which runs
\* the callback up to the start of the consumer loop (on an empty range, to
\* its end).
Callback(m, rcv) ==
    /\ ~panicked
    /\ loops.running > 0
    /\ d[m].pc = "undelivered"
    /\ \A n \in Msgs : n < m => d[n].pc # "undelivered"
    /\ LET more == LoopContinues(0, rcv, FALSE)
       IN d' = [d EXCEPT ![m] =
                [pc |-> IF more THEN "loop" ELSE "done", rcv |-> rcv,
                 idx |-> 0, ackDone |-> FALSE,
                 calls |-> IF more THEN PreAck(<<>>)
                                   ELSE FinalSignal(FALSE, PreAck(<<>>)),
                 okFirst |-> 0, okMore |-> FALSE, errTrue |-> FALSE]]
    /\ UNCHANGED <<Receivers, loops, startCalls, emptyStarts, panicked>>
    /\ UNCHANGED connVars
    /\ UNCHANGED pubVars
    /\ UNCHANGED <<newVars, listVars, regVars>>

\* The callback reading ps.Receivers while no RegisterReceiver call writes it.
ReceiveCallback(m) == Callback(m, RangeOver(Receivers))

\* One flag declared outside the callback and shared by every dispatch.
AckDoneShared(m) == \E n \in Msgs : d[n].ackDone

\* ackDone := false is declared inside the callback: each dispatch reads and
\* writes its own flag.
AckDone(m) == d[m].ackDone

\* One turn of the consumer loop: c.Consume(ctx, []port.IPubSubMessage{m}) is
\* called for the next consumer, returns (ack, err), and the loop body runs.
\* After the last turn the callback sends the Nack, if no consumer won, and
\* returns. The frame notes what the consumers answered: okFirst is the
\* first consumer that returned a true verdict without error, okMore tells
\* that a later one did so too, errTrue that a consumer before it returned a
\* true verdict with an error.
Consume(m, err, ack) ==
    /\ ~panicked
    /\ d[m].pc = "loop"
    /\ LoopContinues(d[m].idx, d[m].rcv, d[m].ackDone)
    /\ LET f == d[m]
           k == f.idx + 1
           win == Wins(AckDone(m), err, ack, m)
           saysTrue == m \in DOMAIN ack /\ ack[m]
           ackDone == IF win THEN TRUE ELSE AckDone(m)
           called == Append(f.calls, <<"Consume", f.rcv[k], <<m>>>>)
           calls == IF win THEN Append(called, <<"Ack">>) ELSE called
           more == LoopContinues(k, f.rcv, ackDone)
       IN d' = [d EXCEPT ![m] =
                [f EXCEPT !.pc = IF more THEN "loop" ELSE "done",
                          !.idx = k,
                          !.ackDone = ackDone,
                          !.calls = IF more THEN calls ELSE FinalSignal(ackDone, calls),
                          !.okFirst = IF f.okFirst = 0 /\ err = "nil" /\ saysTrue
                                         THEN k ELSE f.okFirst,
                          !.okMore = f.okMore \/ (f.okFirst # 0 /\ err = "nil" /\ saysTrue),
                          !.errTrue = f.errTrue \/ (f.okFirst = 0 /\ err # "nil" /\ saysTrue)]]
    /\ UNCHANGED <<Receivers, loops, startCalls, emptyStarts, panicked>>
    /\ UNCHANGED connVars
    /\ UNCHANGED pubVars
    /\ UNCHANGED <<newVars, listVars, regVars>>

\* ------------------------------------------------------- Disconnect
\* if ps.Client != nil
HasClient(c) == c # "nil"

\* func (ps *PubSub) Disconnect() error. What Client.Close() returns is the
\* broker library's business: either outcome is possible.
Disconnect(e) ==
    /\ ~panicked
    /\ disconnects < MaxDisconnects
    /\ disconnects' = disconnects + 1
    /\ IF HasClient(Client)
          THEN /\ closeCalls' = closeCalls + 1
               /\ lastDisconnect' = [closed |-> TRUE, err |-> e]
          ELSE /\ e = "nil"
               /\ lastDisconnect' = [closed |-> FALSE, err |-> "nil"]
               /\ UNCHANGED closeCalls
    /\ UNCHANGED Client
    /\ UNCHANGED <<Receivers, loops, startCalls, emptyStarts, d, panicked>>
    /\ UNCHANGED pubVars
    /\ UNCHANGED <<newVars, listVars, regVars>>

Errs == {"nil", "error"}

\* Consumers are registered under fresh names here: the dispatch never compares
\* them. NextLifecycle registers any consumer, the same one twice too.
NextConsumer == IF Len(Receivers) = 0 THEN "A" ELSE IF Len(Receivers) = 1 THEN "B" ELSE "C"

\* The connector receiving: registration, the receive loops, the dispatches.
Next ==
    \/ RegisterReceiver(NextConsumer)
    \/ StartReceiving
    \/ LoopBegin
    \/ \E e \in Errs : ReceiveReturn(e)
    \/ \E m \in Msgs : ReceiveCallback(m)
    \/ \E m \in Msgs, e \in Errs : \E a \in VerdictMaps(m) : Consume(m, e, a)

Spec == Init /\ [][Next]_vars

\* ------------------------------------------------------- lifecycle
\* Install, Connect and Uninstall do nothing and return nil.
Install == ~panicked /\ UNCHANGED vars

Connect == ~panicked /\ UNCHANGED vars

Uninstall == ~panicked /\ UNCHANGED vars

\* The connector's lifecycle with no message delivered.
NextLifecycle ==
    \/ \E c \in Consumers : RegisterReceiver(c)
    \/ StartReceiving
    \/ LoopBegin
    \/ \E e \in Errs : ReceiveReturn(e)
    \/ \E e \in Errs : Disconnect(e)
    \/ Install
    \/ Connect
    \/ Uninstall

SpecLifecycle == Init /\ [][NextLifecycle]_vars

\* ---------------------------------------------------------- publish
\* The server-generated ID of the n-th publish of a batch, and its error.
IdOf(n) == "id" \o ToString(n)
ErrOf(n) == "failed to publish message: " \o ToString(n)

\* func (ps *PubSub) PublishMessage(...) (string, error): what it returns for
\* the n-th payload, as the broker accepts it or not.
PublishMessage(n, ok) ==
    IF ok THEN [msgID |-> IdOf(n), err |-> "nil"]
          ELSE [msgID |-> "", err |-> ErrOf(n)]

\* results[i] = msgID on the slice results: Go panics when i is out of range.
IndexInRange(i, results) == i < Len(results)

\* func (ps *PubSub) PublishMessages(ctx, messages, attributes): the call, up
\* to the range loop. results := []string{} is an empty slice.
PublishMessagesCall(messages, attributes) ==
    /\ ~panicked
    /\ pub.pc \in {"idle", "returned"}
    /\ pub' = [pc |-> "loop", messages |-> messages, attributes |-> attributes,
               k |-> 0, results |-> <<>>, i |-> 0, err |-> "nil", msgID |-> "",
               sent |-> <<>>, got |-> <<>>]
    /\ UNCHANGED <<Receivers, loops, startCalls, emptyStarts, d, panicked>>
    /\ UNCHANGED connVars
    /\ UNCHANGED <<newVars, listVars, regVars>>

\* One turn of the range loop: msgID, err = ps.PublishMessage(ctx, msg, attributes)
\* and, for a non-empty msgID, results[i] = msgID; i++. A nil ps.Client is
\* dereferenced by PublishMessage.
PublishStep(ok) ==
    /\ ~panicked
    /\ pub.pc = "loop"
    /\ pub.k < Len(pub.messages)
    /\ IF ~HasClient(Client)
          THEN /\ pub' = [pub EXCEPT !.pc = "panicked"]
               /\ panicked' = TRUE
          ELSE LET n == pub.k + 1
                   r == PublishMessage(n, ok)
                   p == [pub EXCEPT !.k = n, !.msgID = r.msgID, !.err = r.err,
                                    !.sent = Append(@, <<pub.messages[n], pub.attributes>>),
                                    !.got = Append(@, r)]
               IN IF r.msgID # ""
                     THEN IF IndexInRange(pub.i, pub.results)
                             THEN /\ pub' = [p EXCEPT !.results[pub.i + 1] = r.msgID,
                                                      !.i = pub.i + 1]
                                  /\ UNCHANGED panicked
                             ELSE /\ pub' = [p EXCEPT !.pc = "panicked"]
                                  /\ panicked' = TRUE
                     ELSE /\ pub' = p
                          /\ UNCHANGED panicked
    /\ UNCHANGED <<Receivers, loops, startCalls, emptyStarts, d>>
    /\ UNCHANGED connVars
    /\ UNCHANGED <<newVars, listVars, regVars>>

\* return results, err
PublishMessagesReturn ==
    /\ ~panicked
    /\ pub.pc = "loop"
    /\ pub.k = Len(pub.messages)
    /\ pub' = [pub EXCEPT !.pc = "returned"]
    /\ UNCHANGED <<Receivers, loops, startCalls, emptyStarts, d, panicked>>
    /\ UNCHANGED connVars
    /\ UNCHANGED <<newVars, listVars, regVars>>

Batches == UNION {[1..n -> Payloads] : n \in 0..MaxBatch}

\* The connector publishing batches.
NextPublish ==
    \/ \E ms \in Batches, as \in AttrSets : PublishMessagesCall(ms, as)
    \/ \E ok \in BOOLEAN : PublishStep(ok)
    \/ PublishMessagesReturn

SpecPublish == Init /\ [][NextPublish]_vars

\* ------------------------------------- registration during dispatches
\* RegisterReceiver and the callback run in different goroutines and
\* ps.Receivers is not guarded: the append's write of the slice header
\* (pointer, length, capacity) and the range statement's read of it may
\* overlap. The call up to the write:
RegisterReceiverBegin(c) ==
    /\ ~panicked
    /\ appending = ""
    /\ Len(Receivers) < MaxReceivers
    /\ appending' = c
    /\ registered' = Append(registered, c)
    /\ UNCHANGED <<Receivers, loops, startCalls, emptyStarts, d, panicked>>
    /\ UNCHANGED <<connVars, pubVars, newVars, listVars>>

\* The header is written and the call returns.
RegisterReceiverEnd ==
    /\ ~panicked
    /\ appending # ""
    /\ Receivers' = AppendReceiver(Receivers, appending)
    /\ appending' = ""
    /\ UNCHANGED <<loops, startCalls, emptyStarts, d, panicked, registered>>
    /\ UNCHANGED <<connVars, pubVars, newVars, listVars>>

\* What a read of the header overlapping its write may see, besides the old
\* header: the new one, or the new length over the old array or over an
\* element not written yet, the last entry then being nil or whatever the
\* memory holds ("torn").
RacyHeaders(rs, c) == {Append(rs, c), Append(rs, "torn")}

\* The callback evaluating range ps.Receivers during the write.
ReceiveCallbackRacing(m, seen) ==
    /\ appending # ""
    /\ seen \in RacyHeaders(Receivers, appending)
    /\ Callback(m, RangeOver(seen))

\* c.Consume called on the torn entry: a nil interface, or a wild pointer.
ConsumeTorn(m) ==
    /\ ~panicked
    /\ d[m].pc = "loop"
    /\ LoopContinues(d[m].idx, d[m].rcv, d[m].ackDone)
    /\ d[m].rcv[d[m].idx + 1] = "torn"
    /\ panicked' = TRUE
    /\ UNCHANGED <<Receivers, loops, startCalls, emptyStarts, d>>
    /\ UNCHANGED <<connVars, pubVars, newVars, listVars, regVars>>

NextRace ==
    \/ RegisterReceiverBegin(NextConsumer)
    \/ RegisterReceiverEnd
    \/ StartReceiving
    \/ LoopBegin
    \/ \E e \in Errs : ReceiveReturn(e)
    \/ \E m \in Msgs : ReceiveCallback(m)
    \/ \E m \in Msgs : \E seen \in RacyHeaders(Receivers, appending) :
          ReceiveCallbackRacing(m, seen)
    \/ \E m \in Msgs, e \in Errs : \E a \in VerdictMaps(m) : Consume(m, e, a)
    \/ \E m \in Msgs : ConsumeTorn(m)

SpecRace == Init /\ [][NextRace]_vars

\* ------------------------------------------------- every operation
\* func (ps *PubSub) Publish(ctx, message, attributes): the message is turned
\* into a string, by helper.ToJSON unless it is one, and handed to
\* PublishMessage, which dereferences ps.Client. Nothing of the connector is
\* written.
Publish(jsonOk, ok) ==
    /\ ~panicked
    /\ panicked' = (jsonOk /\ ~HasClient(Client))
    /\ UNCHANGED <<Receivers, loops, startCalls, emptyStarts, d>>
    /\ UNCHANGED <<connVars, pubVars, newVars, listVars, regVars>>

\* Consumers registered in any order and more than once, next to every other
\* operation of the connector. The consumers return no verdict here and
\* Client.Close() succeeds.
NextRegistry ==
    \/ \E c \in Consumers : RegisterReceiver(c)
    \/ StartReceiving
    \/ LoopBegin
    \/ \E e \in Errs : ReceiveReturn(e)
    \/ \E m \in Msgs : ReceiveCallback(m)
    \/ \E m \in Msgs : Consume(m, "nil", [x \in {} |-> TRUE])
    \/ Disconnect("nil")
    \/ Install
    \/ Connect
    \/ Uninstall
    \/ \E jsonOk \in BOOLEAN, ok \in BOOLEAN : Publish(jsonOk, ok)

SpecRegistry == Init /\ [][NextRegistry]_vars

\* ------------------------------------------------------- NewPubSub
Configs ==
    [ProjectID : {"", "proj"}, CredentialsPath : {"", CredPath},
     Credentials : {"nil", "data"}]

\* What the environment answers during one NewPubSub call: os.Stat failing for
\* another reason than a missing file, and whether MkdirAll, MarshalIndent,
\* WriteFile and pubsub.NewClient succeed.
Envs ==
    [statOther : BOOLEAN, mkdirOk : BOOLEAN, marshalOk : BOOLEAN,
     writeOk : BOOLEAN, clientOk : BOOLEAN]

\* The project id test left out.
EmptyProjectNeverTrue(config) == FALSE

\* if config.ProjectID == ""
EmptyProject(config) == config.ProjectID = ""

\* The existence test answering "missing" for every path.
StatNotExistAlways(path, fs, statOther) == TRUE

\* _, err := os.Stat(path); os.IsNotExist(err)
StatNotExist(path, fs, statOther) == path \notin fs /\ ~statOther

\* A return with an error: no connector.
Failed(config, before, err, fsOps, fs, credFile) ==
    [np |-> [pc |-> "returned", config |-> config, before |-> before,
             fsOps |-> fsOps, credFile |-> credFile, client |-> FALSE, err |-> err],
     files |-> fs]

\* pubsub.NewClient(ctx, projectID, option.WithCredentialsFile(credFile)) and
\* the return. The client library reads the credential file while it creates
\* the client, so it fails on a missing file.
NewClient(config, before, fsOps, fs, credFile, clientOk) ==
    IF credFile \in fs /\ clientOk
       THEN [np |-> [pc |-> "returned", config |-> config, before |-> before,
                     fsOps |-> fsOps, credFile |-> credFile, client |-> TRUE,
                     err |-> "nil"],
             files |-> fs]
       ELSE Failed(config, before, "failed to create PubSub client", fsOps, fs, credFile)

\* The credentials marshalled and written to path (after MkdirAll, for the
\* configured path), then the client.
WriteCredentials(config, fs, env, path, mkdir) ==
    LET dirOps == IF mkdir THEN <<(<<"MkdirAll", path>>)>> ELSE <<>>
    IN IF mkdir /\ ~env.mkdirOk
          THEN Failed(config, fs, "failed to create credentials directory", dirOps, fs, "")
       ELSE IF ~env.marshalOk
          THEN Failed(config, fs, "failed to marshal credentials", dirOps, fs, "")
       ELSE IF ~env.writeOk
          THEN Failed(config, fs, "failed to write credentials file",
                      Append(dirOps, <<"WriteFile", path>>), fs, "")
       ELSE NewClient(config, fs, Append(dirOps, <<"WriteFile", path>>),
                      fs \cup {path}, path, env.clientOk)

\* func NewPubSub(ctx, config) (*PubSub, error), on the files fs.
NewPubSubRun(config, fs, env) ==
    IF EmptyProject(config)
       THEN Failed(config, fs, "PubSub config project_id cannot be empty", <<>>, fs, "")
    ELSE IF config.CredentialsPath # ""
       THEN IF StatNotExist(config.CredentialsPath, fs, env.statOther)
               THEN IF config.Credentials # "nil"
                       THEN WriteCredentials(config, fs, env, config.CredentialsPath, TRUE)
                       ELSE Failed(config, fs, "credentials file not found", <<>>, fs, "")
               ELSE NewClient(config, fs, <<>>, fs, config.CredentialsPath, env.clientOk)
    ELSE IF config.Credentials # "nil"
       THEN WriteCredentials(config, fs, env, TempCredPath, FALSE)
    ELSE Failed(config, fs, "no credentials provided", <<>>, fs, "")

NewPubSub(config, env) ==
    /\ ~panicked
    /\ LET r == NewPubSubRun(config, files, env)
       IN /\ np' = r.np
          /\ files' = r.files
    /\ UNCHANGED <<Receivers, loops, startCalls, emptyStarts, d, panicked>>
    /\ UNCHANGED connVars
    /\ UNCHANGED pubVars
    /\ UNCHANGED <<listVars, regVars>>

\* Connectors being constructed on a disk that keeps what they wrote.
NextNew == \E config \in Configs, env \in Envs : NewPubSub(config, env)

SpecNew == Init /\ [][NextNew]_vars

\* ------------------------------------------- topic / subscription listing
\* ps.Config.Topic, ps.Config.Subscription: the configured name.
ConfiguredName == "target"

\* What the broker's listing holds at each position: an entry of the
\* configured name, an entry of another name, or a fetch that fails.
Entries == {ConfiguredName, "other", "error"}
Listings == UNION {[1..n -> Entries] : n \in 0..MaxListing}

\* it.Next(). The iterator interface leaves open what follows a failed fetch:
\* an iterator that is not sticky moves past the failed entry, a sticky one
\* (google.golang.org/api/iterator keeps the error of a failed page fetch)
\* returns the same error on every later call.
ItNext(it) ==
    IF it.itErr
       THEN [item |-> "nil", err |-> "error", pos |-> it.pos, itErr |-> TRUE]
    ELSE IF it.pos > Len(it.listing)
       THEN [item |-> "nil", err |-> "Done", pos |-> it.pos, itErr |-> FALSE]
    ELSE IF it.listing[it.pos] = "error"
       THEN [item |-> "nil", err |-> "error",
             pos |-> IF it.sticky THEN it.pos ELSE it.pos + 1, itErr |-> it.sticky]
    ELSE [item |-> it.listing[it.pos], err |-> "nil", pos |-> it.pos + 1, itErr |-> FALSE]

\* A comparison that takes every name for the configured one.
MatchesAnyName(name, configured) == TRUE

\* topic.Name == topicName, sub.Name == subName
Matches(name, configured) == name = configured

\* return ps.GetTopicInfo(ctx) != nil
EnsureTopicExists(info) == info # "nil"

\* return ps.GetSubscriptionInfo(ctx) != nil
EnsureSubscriptionExists(info) == info # "nil"

\* The scan of GetSubscriptionInfo over what ListSubscriptions returned.
GetSubscriptionInfo(exists) ==
    LET hits == {i \in 1..Len(exists) : Matches(exists[i], ConfiguredName)}
    IN IF hits = {} THEN "nil"
       ELSE exists[CHOOSE i \in hits : \A j \in hits : i <= j]

Iterating == ls.pc \in {"next", "test"}

\* GetTopicInfo up to the first it.Next().
GetTopicInfoCall(listing, sticky) ==
    /\ ~panicked
    /\ ~Iterating
    /\ ls' = [NoListing EXCEPT !.pc = "next", !.kind = "topic",
                               !.listing = listing, !.sticky = sticky]
    /\ UNCHANGED <<Receivers, loops, startCalls, emptyStarts, d, panicked>>
    /\ UNCHANGED <<connVars, pubVars, newVars, regVars>>

\* GetSubscriptionInfo calling ListSubscriptions, up to the first it.Next().
GetSubscriptionInfoCall(listing, sticky) ==
    /\ ~panicked
    /\ ~Iterating
    /\ ls' = [NoListing EXCEPT !.pc = "next", !.kind = "sub",
                               !.listing = listing, !.sticky = sticky]
    /\ UNCHANGED <<Receivers, loops, startCalls, emptyStarts, d, panicked>>
    /\ UNCHANGED <<connVars, pubVars, newVars, regVars>>

\* topic, err := it.Next() in GetTopicInfo, s, err := it.Next() in
\* ListSubscriptions.
ItNextCall ==
    /\ ~panicked
    /\ ls.pc = "next"
    /\ LET r == ItNext(ls)
       IN ls' = [ls EXCEPT !.pc = "test", !.item = r.item, !.err = r.err,
                           !.pos = r.pos, !.itErr = r.itErr]
    /\ UNCHANGED <<Receivers, loops, startCalls, emptyStarts, d, panicked>>
    /\ UNCHANGED <<connVars, pubVars, newVars, regVars>>

\* The rest of one turn of the loop of GetTopicInfo.
GetTopicInfoLoop ==
    /\ ~panicked
    /\ ls.pc = "test"
    /\ ls.kind = "topic"
    /\ ls' = IF ls.err = "Done"
                THEN [ls EXCEPT !.pc = "returned", !.result = "nil"]
             ELSE IF ls.err # "nil"
                THEN [ls EXCEPT !.pc = "next"]
             ELSE IF Matches(ls.item, ConfiguredName)
                THEN [ls EXCEPT !.pc = "returned", !.result = ls.item]
             ELSE [ls EXCEPT !.pc = "next"]
    /\ UNCHANGED <<Receivers, loops, startCalls, emptyStarts, d, panicked>>
    /\ UNCHANGED <<connVars, pubVars, newVars, regVars>>

\* The rest of one turn of the loop of ListSubscriptions; after the last one
\* the function returns and GetSubscriptionInfo scans what it collected.
ListSubscriptionsLoop ==
    /\ ~panicked
    /\ ls.pc = "test"
    /\ ls.kind = "sub"
    /\ ls' = IF ls.err = "Done"
                THEN [ls EXCEPT !.pc = "returned",
                                !.result = GetSubscriptionInfo(ls.subs)]
             ELSE IF ls.err # "nil"
                THEN [ls EXCEPT !.pc = "next"]
             ELSE [ls EXCEPT !.pc = "next", !.subs = Append(@, ls.item)]
    /\ UNCHANGED <<Receivers, loops, startCalls, emptyStarts, d, panicked>>
    /\ UNCHANGED <<connVars, pubVars, newVars, regVars>>

NextList ==
    \/ \E listing \in Listings, sticky \in BOOLEAN : GetTopicInfoCall(listing, sticky)
    \/ \E listing \in Listings, sticky \in BOOLEAN : GetSubscriptionInfoCall(listing, sticky)
    \/ ItNextCall
    \/ GetTopicInfoLoop
    \/ ListSubscriptionsLoop

SpecList == Init /\ [][NextList]_vars

\* The loops are sequential code: a turn that can be taken is taken.
FairSpecList ==
    /\ SpecList
    /\ WF_vars(ItNextCall)
    /\ WF_vars(GetTopicInfoLoop)
    /\ WF_vars(ListSubscriptionsLoop)

\* ------------------------------------------------ what a dispatch did
Delivered == {m \in Msgs : d[m].pc # "undelivered"}
Dispatched == {m \in Msgs : d[m].pc = "done"}

\* The signals sent to the broker for m, and the Consume calls made, in order.
Signals(m) == SelectSeq(d[m].calls, IsSignal)
Consumed(m) == SelectSeq(d[m].calls, IsConsume)
Acks(m) == Count(d[m].calls, IsAck)
Nacks(m) == Count(d[m].calls, IsNack)

IsPrefix(s, t) == Len(s) <= Len(t) /\ \A i \in 1..Len(s) : s[i] = t[i]

\* C1 as stated: over a whole dispatch the coordinator sends the broker exactly
\* one signal for the message, Ack calls plus Nack calls being 1.
C1_ExactlyOneSignal ==
    \A m \in Dispatched : Acks(m) + Nacks(m) = 1

\* C1 amended: over a whole dispatch the coordinator sends the broker exactly
\* two signals for the message: the Ack the callback starts with and, after it,
\* exactly one outcome signal, an Ack or a Nack; never more at any moment.
C1_PreAckThenOneOutcome ==
    /\ \A m \in Msgs : Len(Signals(m)) <= 2
    /\ \A m \in Dispatched :
          /\ Len(Signals(m)) = 2
          /\ IsAck(Signals(m)[1])
          /\ Acks(m) + Nacks(m) = 2

\* Two dispatches are over, one ended by the second Ack and one by the Nack.
C1_Witness ==
    \E m, n \in Dispatched :
        /\ Signals(m) = <<(<<"Ack">>), (<<"Ack">>)>>
        /\ Signals(n) = <<(<<"Ack">>), (<<"Nack">>)>>

\* C2: first success wins. A dispatch ends without a Nack exactly when some
\* consumer returned no error and a map holding this delivery ID as true;
\* otherwise one Nack is sent, as the last call, after every consumer of the
\* registry has been invoked; no Nack is sent while the dispatch is under way.
C2_FirstSuccessWins ==
    /\ \A m \in Msgs : d[m].pc # "done" => Nacks(m) = 0
    /\ \A m \in Dispatched :
          /\ (Nacks(m) = 0) <=> (d[m].okFirst # 0)
          /\ Nacks(m) <= 1
          /\ Nacks(m) = 1 =>
                /\ IsNack(d[m].calls[Len(d[m].calls)])
                /\ Len(Consumed(m)) = Len(d[m].rcv)

\* Registry [A, B]: A did not accept, B returned the ID as true with no error,
\* both were invoked and the dispatch ended acknowledged.
C2_Witness ==
    \E m \in Dispatched :
        /\ d[m].rcv = <<"A", "B">>
        /\ d[m].okFirst = 2
        /\ Len(Consumed(m)) = 2
        /\ Nacks(m) = 0

\* C3: broadcast to all. A dispatch runs over a registry of N >= 1 consumers;
\* the Consume calls made so far are those of the first idx consumers, one call
\* each, in registration order, each with the one-element batch of the message;
\* when the dispatch is over all N have been called, whoever won or failed.
C3_BroadcastToAll ==
    \A m \in Delivered :
        /\ Len(d[m].rcv) >= 1
        /\ IsPrefix(d[m].rcv, Receivers)
        /\ Consumed(m) = [i \in 1..d[m].idx |-> <<"Consume", d[m].rcv[i], <<m>>>>]
        /\ d[m].pc = "done" => d[m].idx = Len(d[m].rcv)

\* The first of two consumers won and the second was called all the same.
C3_Witness ==
    \E m \in Dispatched :
        /\ d[m].okFirst = 1
        /\ Len(d[m].rcv) = 2
        /\ Consumed(m) = <<(<<"Consume", d[m].rcv[1], <<m>>>>),
                           (<<"Consume", d[m].rcv[2], <<m>>>>)>>

\* C4: the first call made for a delivered message is an Ack, so it comes
\* before every Consume call, and every Nack comes strictly after it.
C4_AckBeforeDispatch ==
    \A m \in Delivered :
        /\ Len(d[m].calls) >= 1
        /\ IsAck(d[m].calls[1])
        /\ \A i \in 1..Len(d[m].calls) :
              (IsConsume(d[m].calls[i]) \/ IsNack(d[m].calls[i])) => i > 1

\* A dispatch whose calls are the Ack, one Consume and the Nack.
C4_Witness ==
    \E m \in Dispatched :
        /\ Len(d[m].calls) = 3
        /\ IsAck(d[m].calls[1])
        /\ IsConsume(d[m].calls[2])
        /\ IsNack(d[m].calls[3])

\* C5: a consumer that returns an error counts as not having handled the
\* message. If the only true verdicts came with an error the dispatch ends
\* with the Nack and no second Ack; an error-free true verdict wins whether an
\* errored one came before or after it, the second Ack following that
\* consumer's call; and the consumers after an errored one are still called.
C5_ErrorIsNotHandled ==
    \A m \in Delivered :
        /\ d[m].okFirst = 0 => Acks(m) = 1
        /\ d[m].okFirst # 0 =>
              /\ Acks(m) = 2
              /\ \E i \in 2..Len(d[m].calls) :
                    /\ IsAck(d[m].calls[i])
                    /\ d[m].calls[i - 1] = <<"Consume", d[m].rcv[d[m].okFirst], <<m>>>>
        /\ d[m].pc = "done" =>
              /\ Len(Consumed(m)) = Len(d[m].rcv)
              /\ (d[m].okFirst = 0) => Nacks(m) = 1

\* The first consumer erred while returning true, the second then won; and a
\* dispatch whose only true verdict came with an error ended with the Nack.
C5_Witness ==
    /\ \E m \in Dispatched :
          d[m].errTrue /\ d[m].okFirst = 2 /\ Nacks(m) = 0
    /\ \E m \in Dispatched :
          d[m].errTrue /\ d[m].okFirst = 0 /\ Nacks(m) = 1

\* C6: a StartReceiving call made on an empty registry starts nothing. The
\* goroutines started are as many as the calls made on a non-empty registry;
\* while every call so far was made on an empty registry there is no loop and
\* no message has been received, acknowledged or dispatched, whatever was
\* registered afterwards.
C6_EmptyRegistryRejected ==
    /\ Started = startCalls - emptyStarts
    /\ startCalls = emptyStarts =>
          /\ loops = NoLoops
          /\ \A m \in Msgs : d[m] = NoFrame

\* StartReceiving was called on the empty registry, consumers were registered
\* afterwards, and nothing runs.
C6_Witness ==
    /\ emptyStarts >= 1
    /\ startCalls = emptyStarts
    /\ Len(Receivers) >= 1
    /\ loops = NoLoops

\* C7 as stated: never more than one receive loop runs at a time.
C7_AtMostOneLoop == loops.running <= 1

\* C8 as stated: a Disconnect after a Disconnect (or on a connector with no
\* client handle) is a no-op: the broker handle is closed at most once, and
\* such a call returns no error.
C8_DisconnectIdempotent ==
    /\ closeCalls <= 1
    /\ (disconnects >= 2 \/ ~HasClient(Client)) =>
          (~lastDisconnect.closed /\ lastDisconnect.err = "nil")

\* ------------------------------------------------ what a batch did
PublishEnded == pub.pc \in {"returned", "panicked"}

\* What PublishMessage returned for the payloads that were published.
SuccessIDs == [j \in 1..Len(SelectSeq(pub.got, LAMBDA r : r.msgID # "")) |->
                  SelectSeq(pub.got, LAMBDA r : r.msgID # "")[j].msgID]
Failures == SelectSeq(pub.got, LAMBDA r : r.err # "nil")
LastFailure == IF Failures = <<>> THEN "nil" ELSE Failures[Len(Failures)].err

\* C9 as stated: on an open connector PublishMessages publishes every payload
\* once, in input order, with the same attributes, goes on after a failure and
\* returns normally the IDs of exactly the successful publishes, in order.
C9_BatchPublishResult ==
    (HasClient(Client) /\ PublishEnded) =>
        /\ pub.pc = "returned"
        /\ pub.sent = [j \in 1..Len(pub.messages) |-> <<pub.messages[j], pub.attributes>>]
        /\ pub.results = SuccessIDs

\* C10 as stated: a PublishMessages call in which a publish failed returns the
\* error of the last failed publish, also when successful publishes follow;
\* one in which none failed returns nil.
C10_BatchPublishError ==
    /\ (HasClient(Client) /\ PublishEnded /\ Failures # <<>>) =>
          /\ pub.pc = "returned"
          /\ pub.err # "nil"
          /\ pub.err = LastFailure
    /\ (pub.pc = "returned" /\ Failures = <<>>) => pub.err = "nil"

\* ------------------------------------------------ what NewPubSub did
Wrote == \E i \in 1..Len(np.fsOps) : np.fsOps[i][1] = "WriteFile"

\* C11: NewPubSub on an invalid configuration (empty project id, or no inline
\* credential data and either no credential path or no file at the path)
\* returns an error, creates no client and makes no filesystem call: no
\* directory created, no file written, the disk as it was.
C11_InvalidConfigNoEffects ==
    (/\ np.pc = "returned"
     /\ \/ np.config.ProjectID = ""
        \/ /\ np.config.Credentials = "nil"
           /\ \/ np.config.CredentialsPath = ""
              \/ np.config.CredentialsPath \notin np.before)
    => /\ np.err # "nil"
       /\ ~np.client
       /\ np.fsOps = <<>>
       /\ files = np.before

\* An empty project id given with inline data and no file on disk: an error
\* and nothing written.
C11_Witness ==
    /\ np.pc = "returned"
    /\ np.config = [ProjectID |-> "", CredentialsPath |-> CredPath, Credentials |-> "data"]
    /\ np.before = {}
    /\ np.err # "nil"
    /\ files = {}

\* C12: with a credential path configured, a project id given and a file at
\* the path, NewPubSub makes no filesystem call, inline data or not, and
\* connects with exactly that path. A file is written only when inline data
\* is present and the path is configured but absent, or not configured.
C12_ExistingFileUsedAsIs ==
    np.pc = "returned" =>
        /\ (/\ np.config.ProjectID # ""
            /\ np.config.CredentialsPath # ""
            /\ np.config.CredentialsPath \in np.before)
           => /\ np.fsOps = <<>>
              /\ files = np.before
              /\ np.credFile = np.config.CredentialsPath
        /\ Wrote =>
              /\ np.config.Credentials # "nil"
              /\ \/ np.config.CredentialsPath = ""
                 \/ np.config.CredentialsPath \notin np.before

\* A file at the configured path, inline data supplied as well: the connector
\* is built on that file and nothing was written.
C12_Witness ==
    /\ np.pc = "returned"
    /\ np.config = [ProjectID |-> "proj", CredentialsPath |-> CredPath, Credentials |-> "data"]
    /\ CredPath \in np.before
    /\ np.client
    /\ np.credFile = CredPath
    /\ np.fsOps = <<>>

\* ------------------------------------------------ what a listing gave
\* The names the iterator hands over without error for the listing in hand.
Yielded ==
    {ls.listing[i] : i \in {k \in 1..Len(ls.listing) :
        /\ ls.listing[k] # "error"
        /\ ls.sticky => \A j \in 1..k : ls.listing[j] # "error"}}

Exists ==
    IF ls.kind = "topic" THEN EnsureTopicExists(ls.result)
                         ELSE EnsureSubscriptionExists(ls.result)

\* C13: when EnsureTopicExists / EnsureSubscriptionExists returns, it returns
\* true exactly when some entry the iterator handed over without error bears
\* the configured name; failed fetches before or after that entry do not
\* make it false, and a listing exhausted without a match gives false.
C13_TolerantExistenceCheck ==
    ls.pc = "returned" => (Exists <=> ConfiguredName \in Yielded)

\* A subscription listing whose matching entry sits between two failed
\* fetches, walked to its end: the answer is true.
C13_Witness ==
    /\ ls.pc = "returned"
    /\ ls.kind = "sub"
    /\ ls.listing = <<"error", ConfiguredName, "error">>
    /\ Len(ls.subs) = 1
    /\ Exists

\* C18: GetTopicInfo and ListSubscriptions, once called on a finite listing,
\* eventually return, failed fetches included.
C18_ListingTerminates == Iterating ~> (ls.pc = "returned")

\* C14: a StartReceiving call returns without waiting: across the call no
\* loop has begun or ended its streaming pull and no message has been
\* delivered or dispatched; on a non-empty registry what it leaves behind is
\* one more background task still to begin.
C14_StartReceivingNonBlocking ==
    [][startCalls' # startCalls =>
          /\ loops'.running = loops.running
          /\ loops'.exited = loops.exited
          /\ d' = d
          /\ ~NoReceivers(Receivers) => loops'.spawned = loops.spawned + 1]_vars

\* StartReceiving has returned and its caller has registered another
\* consumer; the loop is pulling, has not ended and has delivered nothing.
C14_Witness ==
    /\ startCalls = 1
    /\ emptyStarts = 0
    /\ loops = [spawned |-> 0, running |-> 1, exited |-> 0]
    /\ Len(Receivers) = 2
    /\ Delivered = {}

\* C15: a receive loop comes into being only by a StartReceiving call made
\* on a non-empty registry, and a streaming pull begins only as such a
\* loop's first step; a pull that stops has returned and its loop is over;
\* every loop started, pulling or over answers one such call, so none is
\* started again on its own; and a message is delivered to a dispatch only
\* while a pull is running.
C15_ReceiveLoopLifecycle ==
    /\ [](loops.spawned + loops.running + loops.exited = startCalls - emptyStarts)
    /\ [][/\ loops'.spawned > loops.spawned =>
                /\ startCalls' = startCalls + 1
                /\ ~NoReceivers(Receivers)
                /\ loops'.spawned = loops.spawned + 1
          /\ loops'.running > loops.running =>
                /\ loops'.running = loops.running + 1
                /\ loops'.spawned = loops.spawned - 1
          /\ loops'.running < loops.running =>
                /\ loops'.running = loops.running - 1
                /\ loops'.exited = loops.exited + 1
          /\ Delivered' # Delivered => loops.running > 0]_vars

\* The one loop started has ended after delivering the first message; the
\* second message stays undelivered and nothing pulls.
C15_Witness ==
    /\ startCalls = 1
    /\ emptyStarts = 0
    /\ loops = [spawned |-> 0, running |-> 0, exited |-> 1]
    /\ Delivered = {1}

\* C16: the registry is at every moment the sequence of consumers that
\* RegisterReceiver was called with, in call order and with repetitions,
\* whatever StartReceiving, dispatches, Publish, Disconnect, Install, Connect
\* and Uninstall have done in between; a dispatch that is over has called
\* Consume once per entry of the registry it ran over, a consumer registered
\* twice being called twice.
C16_RegistryAppendOnly ==
    /\ Receivers = registered
    /\ \A m \in Dispatched :
          /\ IsPrefix(d[m].rcv, registered)
          /\ Consumed(m) = [i \in 1..Len(d[m].rcv) |-> <<"Consume", d[m].rcv[i], <<m>>>>]

\* The same consumer registered twice and called twice for message 1, after
\* a Disconnect.
C16_Witness ==
    /\ registered = <<"A", "A">>
    /\ Receivers = <<"A", "A">>
    /\ 1 \in Dispatched
    /\ Consumed(1) = <<(<<"Consume", "A", <<1>>>>), (<<"Consume", "A", <<1>>>>)>>
    /\ disconnects > 0

\* The positions in m's calls of the Acks sent inside the consumer loop.
SuccessAcks(m) == {i \in 2..Len(d[m].calls) : IsAck(d[m].calls[i])}

\* C17: for every delivered message the consumer loop sends at most one Ack,
\* however many consumers return a true verdict without error; it is sent
\* right after the call of the first such consumer in registration order;
\* and a message that got it never gets a Nack.
C17_OneSuccessAckOrNack ==
    \A m \in Delivered :
        /\ Cardinality(SuccessAcks(m)) <= 1
        /\ \A i \in SuccessAcks(m) :
              /\ d[m].okFirst # 0
              /\ d[m].calls[i - 1] = <<"Consume", d[m].rcv[d[m].okFirst], <<m>>>>
              /\ Count(SubSeq(d[m].calls, 1, i), IsConsume) = d[m].okFirst
        /\ SuccessAcks(m) # {} => Nacks(m) = 0

\* Both consumers answered message 1 with a true verdict and no error: the
\* dispatch is over with one Ack from the loop, after the first call.
C17_Witness ==
    /\ 1 \in Dispatched
    /\ d[1].okFirst = 1
    /\ d[1].okMore
    /\ Len(d[1].rcv) = 2
    /\ SuccessAcks(1) = {3}
    /\ Nacks(1) = 0

\* C19: dispatches running at the same time do not touch each other: a step
\* of one message's dispatch leaves every other message's frame, its flag and
\* its signals as they were, and the outcome of a dispatch that is over
\* follows from the results returned in that dispatch alone: the loop's Ack
\* and no Nack if one of its own consumers returned a true verdict for it
\* without error, a Nack and no Ack from the loop otherwise.
C19_DispatchesIndependent ==
    /\ [][\A m \in Msgs : d'[m] # d[m] =>
              \A n \in Msgs \ {m} : d'[n] = d[n]]_vars
    /\ [](\A m \in Dispatched :
              IF d[m].okFirst # 0
                 THEN d[m].ackDone /\ Acks(m) = 2 /\ Nacks(m) = 0
                 ELSE ~d[m].ackDone /\ Acks(m) = 1 /\ Nacks(m) = 1)

\* Message 1 has won at its first consumer and is still in its loop; message
\* 2, delivered after it, has run over both consumers meanwhile, none of them
\* accepting it, and was Nacked.
C19_Witness ==
    /\ d[1].pc = "loop"
    /\ d[1].ackDone
    /\ d[1].idx = 1
    /\ d[2].pc = "done"
    /\ Len(d[2].rcv) = 2
    /\ d[2].okFirst = 0
    /\ ~d[2].ackDone
    /\ Nacks(2) = 1

\* C20: with RegisterReceiver calls running while messages are dispatched,
\* every dispatch runs over the consumers registered when it began iterating,
\* a prefix of the consumers registered in call order, and has called them
\* one by one in that order, none skipped and none twice.
C20_DispatchOverRegistryPrefix ==
    \A m \in Delivered :
        /\ IsPrefix(d[m].rcv, registered)
        /\ Consumed(m) = [i \in 1..d[m].idx |-> <<"Consume", d[m].rcv[i], <<m>>>>]

====
